---- MODULE Spec2Model ----
(***************************************************************************)
(* Model of the ShopeeFood capture engine (src/src/shopeefood_scraper.py)  *)
(* and of the service endpoints that own the scraper (src/src/server.py).  *)
(*                                                                         *)
(* Every coroutine is cut at its await points: what runs between two       *)
(* awaits is one action, as under asyncio's cooperative scheduling.        *)
(*                                                                         *)
(* Spec       one scraper: its session, its gate, catch_request callers    *)
(*            and one batch_get_restaurant_menu_infos call.                *)
(* SpecServer the service: the global scraper and concurrent requests to   *)
(*            /init, /close, /restaurants and /deals.                      *)
(***************************************************************************)
EXTENDS Integers, Sequences, FiniteSets

\* ---------------------------------------------------------------- bounds
\* Number of capture operations (callers of catch_request) in a run.
NumOps == 2
\* Largest retry budget a run is configured with (retries in 0..MaxRetries).
MaxRetries == 1
\* Number of service requests in a run.
NumReqs == 3
\* Number of ShopeeFoodScraper objects the service may create in a run.
NumScrapers == 2

\* Largest gate size a run is configured with: a gate of more permits than
\* there are operations never blocks, as one of NumOps permits does not.
MaxTabs == NumOps

Ops == 1..NumOps
Reqs == 1..NumReqs
Scrapers == 1..NumScrapers

\* ------------------------------------------------------------ data values
\* Bodies a menu response can carry: a menu payload, a well-formed payload
\* without menu, and text that is not the expected JSON.
MenuBodies == {"menu", "nomenu", "bad"}
\* The body a search page's restaurant-info response carries.
SearchBodies == {"links"}
Bodies == MenuBodies \cup SearchBodies
\* The empty result of catch_request (the literal "" of the source).
Empty == ""
\* result.get("data") before any handler has recorded a body.
NoData == "nodata"
\* Exceptions: RuntimeError("Browser not started..."), asyncio.TimeoutError,
\* a driver or protocol error, a body that json.loads or .get rejects, and the
\* AttributeError of calling a method on None.
NotStarted == "NotStarted"
TimeoutError == "TimeoutError"
DriverError == "DriverError"
MalformedPayload == "MalformedPayload"
AttributeError == "AttributeError"
Errors == {NotStarted, TimeoutError, DriverError, MalformedPayload, AttributeError}
\* No return value yet.
Pending == "pending"
\* price_threshold=100, the default of the deal extractor.
DefaultThreshold == 100
\* backoff=1.0, the default of catch_request.
DefaultBackoff == 1
\* The error code of the harmless race in receive_handler.
BenignCode == -32000
\* The code of another protocol error (invalid parameters).
OtherCode == -32602
\* The service's `scraper is None`.
None == 0

VARIABLES
    browser,        \* self.browser is set (not None)
    max_tabs,       \* max_concurrent_tabs given to __init__
    retries,        \* retry budget of the catch_request calls
    sem,            \* free permits of self.semaphore
    pc,             \* pc[o]: where operation o is
    attempt,        \* attempt[o]: catch_request's local attempt
    tab,            \* tab[o]: "open" while the tab o opened exists, else "none"
    result,         \* result[o]: the body recorded by o's handler, or NoData
    ret,            \* ret[o]: what o's catch_request returned or raised
    urls,           \* the operations that are branches of the batch
    max_concurrent, \* the batch's max_concurrent argument
    bsem,           \* free permits of the batch-local semaphore
    bpc,            \* the batch caller: idle, gathering, done
    bret,           \* what the batch call raised, or "returned"
    menu_infos,     \* the map the batch returned: a function from URLs to menus
    scraper,        \* server.py's global scraper: None or a scraper object
    created,        \* number of ShopeeFoodScraper objects created so far
    sbrowser,       \* sbrowser[s]: scraper object s has its browser set
    rpc,            \* rpc[r]: where request r is
    rkind,          \* rkind[r]: the endpoint request r called
    robj,           \* robj[r]: the scraper object r awaits start() or stop() of
    rresp,          \* rresp[r]: what request r answered
    menus,          \* the menu_infos argument of the deal extractor
    price_threshold,\* its price_threshold argument
    dpc,            \* the extractor's caller: idle, done
    special_deals,  \* the map the extractor returned
    cpc,            \* the traced call of catch_request: where it is
    cattempt,       \* its local attempt
    backoff,        \* its backoff argument
    sleeps,         \* the delays its asyncio.sleep(delay) was called with
    done,           \* the attempt's asyncio.Event done is set
    cresult,        \* the attempt's result dict: its "url" and "data"
    timed_out,      \* the attempt's wait_for raised TimeoutError
    cret,           \* what the traced call returned or raised
    hpc,            \* hpc[e]: where receive_handler(event e) is
    hcode,          \* hcode[e]: the code of the error its body fetch raised
    restaurant_urls,\* the URL list of the traced batch
    gpc,            \* the traced batch: idle, gathering, returned, raised
    gathered,       \* gathered[i]: what the task of the i-th URL returned
    finished,       \* the tasks of the traced batch in the order they finished
    gout            \* the map the traced batch returned

opVars == <<pc, attempt, tab, result, ret>>
cfgVars == <<max_tabs, retries, urls, max_concurrent>>
batchVars == <<bpc, bret, menu_infos>>
coreVars == <<browser, sem, bsem, opVars, cfgVars, batchVars>>
serverVars == <<scraper, created, sbrowser, rpc, rkind, robj, rresp>>
dealVars == <<menus, price_threshold, dpc, special_deals>>
\* What the actions of one component leave alone: the other components.
attemptVars == <<done, cresult, timed_out, hpc, hcode>>
captureVars == <<cpc, cattempt, backoff, sleeps, cret, attemptVars>>
gatherVars == <<restaurant_urls, gpc, gathered, finished, gout>>
nonCoreVars == <<serverVars, dealVars, captureVars, gatherVars>>
nonServerVars == <<coreVars, dealVars, captureVars, gatherVars>>
nonDealVars == <<coreVars, serverVars, captureVars, gatherVars>>
nonGatherVars == <<coreVars, serverVars, dealVars, captureVars>>
\* The traced call takes its permits from self.semaphore and reads the
\* session and the retry budget; it leaves everything else alone.
nonCaptureVars ==
    <<browser, bsem, opVars, cfgVars, batchVars, serverVars, dealVars, gatherVars>>
vars == <<coreVars, serverVars, dealVars, captureVars, gatherVars>>

\* ---------------------------------------------------------------- helpers
\* json.loads(restaurant_data).get("reply", {}).get("menu_infos", {}):
\* ok is FALSE when json.loads or a .get raises; menu is the menu structure.
ParseMenu(body) ==
    CASE body = "menu"   -> [ok |-> TRUE,  menu |-> <<"dishes">>]
      [] body = "nomenu" -> [ok |-> TRUE,  menu |-> <<>>]
      [] OTHER           -> [ok |-> FALSE, menu |-> <<>>]

\* Tabs open in the browser right now.
OpenTabs == {o \in Ops : tab[o] = "open"}

\* Operations inside a capture attempt (_catch_request_core has not yet
\* returned or raised).
InAttempt == {o \in Ops : pc[o] \in {"setup", "waiting", "closing"}}

\* Operations holding a permit of self.semaphore (inside `async with`).
Holders == InAttempt \cup {o \in Ops : pc[o] = "backoff"}

\* A check that never raises.
CheckBrowser_Missing(b) == TRUE

\* _check_browser(): passes iff the browser is set.
CheckBrowser(b) == b

\* Largest batch-local bound a batch over the URLs us is given: a gate of more
\* permits than the batch has branches never blocks, as one of that many.
MaxConcurrent(us) == IF us = {} THEN 1 ELSE Cardinality(us)

\* ------------------------------------------------------------------- Init
\* One scraper after __init__, with its callers not yet arrived.
CoreInit ==
    /\ browser = FALSE
    /\ max_tabs \in 1..MaxTabs
    /\ retries \in 0..MaxRetries
    /\ sem = max_tabs
    /\ pc = [o \in Ops |-> "idle"]
    /\ attempt = [o \in Ops |-> 0]
    /\ tab = [o \in Ops |-> "none"]
    /\ result = [o \in Ops |-> NoData]
    /\ ret = [o \in Ops |-> Pending]
    /\ \E n \in 0..NumOps : urls = 1..n
    /\ max_concurrent \in 1..MaxConcurrent(urls)
    /\ bsem = max_concurrent
    /\ bpc = "idle"
    /\ bret = Pending
    /\ menu_infos = << >>

\* The service at import: `scraper: ShopeeFoodScraper | None = None`.
ServerInit ==
    /\ scraper = None
    /\ created = 0
    /\ sbrowser = [s \in Scrapers |-> FALSE]
    /\ rpc = [r \in Reqs |-> "idle"]
    /\ rkind = [r \in Reqs |-> "none"]
    /\ robj = [r \in Reqs |-> None]
    /\ rresp = [r \in Reqs |-> Pending]

\* The deal extractor not called: no argument, no result.
DealsIdle ==
    /\ menus = << >>
    /\ price_threshold = DefaultThreshold
    /\ dpc = "idle"
    /\ special_deals = << >>

\* Number of network responses the page of one attempt produces.
NumEvents == 2
\* Largest backoff base (in seconds) a traced call is given.
MaxBackoff == 2

Events == 1..NumEvents
\* The texts a response body can be.
Texts == {"dishes", "more dishes"}
\* `result = {}`: neither "url" nor "data".
NoResult == [url |-> None, data |-> NoData]

\* The traced call of catch_request, with backoff base b, not yet made.
CaptureStart(b) ==
    /\ cpc = "idle"
    /\ cattempt = 0
    /\ backoff = b
    /\ sleeps = << >>
    /\ cret = Pending
    /\ done = FALSE
    /\ cresult = NoResult
    /\ timed_out = FALSE
    /\ hpc = [e \in Events |-> "none"]
    /\ hcode = [e \in Events |-> 0]

\* No call of catch_request is traced.
CaptureIdle == CaptureStart(DefaultBackoff)

\* The traced batch over the URL list us, not yet called.
GatherStart(us) ==
    /\ restaurant_urls = us
    /\ gpc = "idle"
    /\ gathered = << >>
    /\ finished = << >>
    /\ gout = << >>

\* No batch is traced.
GatherIdle == GatherStart(<< >>)

Init == CoreInit /\ ServerInit /\ DealsIdle /\ CaptureIdle /\ GatherIdle

\* ------------------------------------------------------- session: start/stop
\* start() by the scraper's owner: `if not self.browser:` and, once
\* zendriver.start() has returned, the assignment of self.browser. The
\* operations read only self.browser, so the call is taken at its assignment.
Start ==
    /\ ~browser
    /\ browser' = TRUE
    /\ UNCHANGED <<sem, bsem, opVars, cfgVars, batchVars, nonCoreVars>>

\* stop() by the scraper's owner: `if self.browser:`, the await of
\* self.browser.stop(), and `self.browser = None`, taken at the assignment.
Stop ==
    /\ browser
    /\ browser' = FALSE
    /\ UNCHANGED <<sem, bsem, opVars, cfgVars, batchVars, nonCoreVars>>

\* ------------------------------------------------------------ catch_request
\* Operation o's catch_request ends with r: a body, Empty or an error. Its
\* locals (attempt, and the core's result dict) end with the call.
Finish(o, r) ==
    /\ pc' = [pc EXCEPT ![o] = "done"]
    /\ ret' = [ret EXCEPT ![o] = r]
    /\ attempt' = [attempt EXCEPT ![o] = 0]
    /\ result' = [result EXCEPT ![o] = NoData]

\* A branch that leaves limited_catch without giving its permit back.
LocalRelease_Kept(o) == bsem

\* Leaving limited_catch's `async with semaphore` (a batch branch only).
LocalRelease(o) == IF o \in urls THEN bsem + 1 ELSE bsem

\* A handler that catches every exception (`except Exception:`).
Caught_Any(e) == TRUE

\* `except asyncio.TimeoutError:` the only exception catch_request handles.
Caught(e) == e = TimeoutError

\* The test off by one (`if attempt < retries:`).
RetryAllowed_OffByOne(a, r) == a < r

\* `if attempt <= retries:` in the TimeoutError handler: sleep and go round again.
RetryAllowed(a, r) == a <= r

\* The handler with its sleep after `async with`: the permit is given back
\* before the backoff sleep.
Raise_SleepOutside(o, e, free) ==
    IF Caught(e)
    THEN IF RetryAllowed(attempt[o], retries)
         THEN /\ pc' = [pc EXCEPT ![o] = "backoff"]
              /\ sem' = free + 1
              /\ UNCHANGED <<ret, attempt, result, bsem>>
         ELSE /\ Finish(o, Empty)
              /\ sem' = free + 1
              /\ bsem' = LocalRelease(o)
    ELSE /\ Finish(o, e)
         /\ sem' = free + 1
         /\ bsem' = LocalRelease(o)

\* Exception e leaves _catch_request_core in operation o's attempt, free being
\* the gate's free permits while o holds its own. A TimeoutError is handled:
\* with attempts left the backoff sleep is awaited, still inside `async with`;
\* without, "" is returned. Any other exception leaves `async with` and
\* catch_request.
Raise(o, e, free) ==
    IF Caught(e)
    THEN IF RetryAllowed(attempt[o], retries)
         THEN /\ pc' = [pc EXCEPT ![o] = "backoff"]
              /\ sem' = free
              /\ UNCHANGED <<ret, attempt, result, bsem>>
         ELSE /\ Finish(o, Empty)
              /\ sem' = free + 1
              /\ bsem' = LocalRelease(o)
    ELSE /\ Finish(o, e)
         /\ sem' = free + 1
         /\ bsem' = LocalRelease(o)

\* get_restaurant_links_from_search / catch_request called by a caller of its
\* own: _check_browser(), attempt = 0, the first `attempt += 1`, and then
\* `async with self.semaphore`. Callers arrive in index order.
Call(o) ==
    /\ o \notin urls
    /\ pc[o] = "idle"
    /\ \A p \in Ops \ urls : p < o => pc[p] # "idle"
    /\ IF ~CheckBrowser(browser)
       THEN Finish(o, NotStarted)
       ELSE /\ pc' = [pc EXCEPT ![o] = "gate"]
            /\ attempt' = [attempt EXCEPT ![o] = 1]
            /\ UNCHANGED <<ret, result>>
    /\ UNCHANGED <<browser, sem, bsem, tab, cfgVars, batchVars, nonCoreVars>>

\* limited_catch: `async with semaphore` acquired, then catch_request as in
\* Call. gather starts the tasks in the order of the URLs and the semaphore
\* wakes its waiters first come, first served.
LocalAcquire(o) ==
    /\ o \in urls
    /\ pc[o] = "local"
    /\ \A p \in urls : p < o => pc[p] # "local"
    /\ bsem > 0
    /\ IF ~CheckBrowser(browser)
       THEN /\ Finish(o, NotStarted)
            /\ UNCHANGED bsem
       ELSE /\ pc' = [pc EXCEPT ![o] = "gate"]
            /\ attempt' = [attempt EXCEPT ![o] = 1]
            /\ bsem' = bsem - 1
            /\ UNCHANGED <<ret, result>>
    /\ UNCHANGED <<browser, sem, tab, cfgVars, batchVars, nonCoreVars>>

\* `async with self.semaphore` entered; _catch_request_core runs
\* _check_browser() and browser.get("about:blank", new_tab=True) returns the
\* new tab. A NotStarted raised by the check leaves the core at once.
\* Nothing reads the attempt between its permit and its tab, so the await of
\* browser.get is taken together with the permit.
Acquire(o) ==
    /\ pc[o] = "gate"
    /\ sem > 0
    /\ IF ~CheckBrowser(browser)
       THEN /\ Raise(o, NotStarted, sem - 1)
            /\ UNCHANGED tab
       ELSE /\ pc' = [pc EXCEPT ![o] = "setup"]
            /\ sem' = sem - 1
            /\ tab' = [tab EXCEPT ![o] = "open"]
            /\ result' = [result EXCEPT ![o] = NoData]
            /\ UNCHANGED <<ret, bsem, attempt>>
    /\ UNCHANGED <<browser, cfgVars, batchVars, nonCoreVars>>

\* As Acquire, but browser.get(...) raised a driver error or returned None
\* (RuntimeError "No tab found"): no tab exists when the error leaves the core.
OpenFail(o) ==
    /\ pc[o] = "gate"
    /\ sem > 0
    /\ CheckBrowser(browser)
    /\ Raise(o, DriverError, sem - 1)
    /\ UNCHANGED <<browser, tab, cfgVars, batchVars, nonCoreVars>>

\* tab.send(network.enable()) answered, the handler is added, the 0.5 s sleep
\* taken and tab.get(page_url) returned: wait_for(done.wait(), timeout) is
\* awaited inside the try block.
Navigate(o) ==
    /\ pc[o] = "setup"
    /\ pc' = [pc EXCEPT ![o] = "waiting"]
    /\ UNCHANGED <<browser, sem, bsem, attempt, tab, result, ret, cfgVars,
                   batchVars, nonCoreVars>>

\* What an exception raised between opening the tab and the try block does to
\* the tab: lines 79-109 are outside `try: ... finally: await tab.close()`.
TabAfterSetupError(t) == t

\* tab.send(network.enable()) or tab.get(page_url) raised a driver error: the
\* exception leaves _catch_request_core before its try block is entered.
SetupFail(o) ==
    /\ pc[o] = "setup"
    /\ Raise(o, DriverError, sem)
    /\ tab' = [tab EXCEPT ![o] = TabAfterSetupError(tab[o])]
    /\ UNCHANGED <<browser, cfgVars, batchVars, nonCoreVars>>

\* The bodies the filter of operation o lets through: filter_delivery_dishes
\* for a batch branch, filter_restaurant_info for a search.
BodiesOf(o) == IF o \in urls THEN MenuBodies ELSE SearchBodies

\* receive_handler: a matching response, its body fetched: result is recorded
\* and done is set; wait_for returns and the finally block awaits tab.close().
Match(o, body) ==
    /\ pc[o] = "waiting"
    /\ result' = [result EXCEPT ![o] = body]
    /\ pc' = [pc EXCEPT ![o] = "closing"]
    /\ UNCHANGED <<browser, sem, bsem, attempt, tab, ret, cfgVars, batchVars,
                   nonCoreVars>>

\* A matching response with any of the bodies the filter lets through.
MatchAny(o) == \E body \in BodiesOf(o) : Match(o, body)

\* wait_for timed out: TimeoutError is raised into the finally block, which
\* awaits tab.close().
Timeout(o) ==
    /\ pc[o] = "waiting"
    /\ pc' = [pc EXCEPT ![o] = "closing"]
    /\ UNCHANGED <<browser, sem, bsem, attempt, tab, result, ret, cfgVars,
                   batchVars, nonCoreVars>>

\* tab.close() returned in the finally block. With done set,
\* _catch_request_core returns result.get("data", "") and catch_request
\* returns it, leaving `async with`. Without, the TimeoutError goes on.
CloseTab(o) ==
    /\ pc[o] = "closing"
    /\ tab' = [tab EXCEPT ![o] = "none"]
    /\ IF result[o] # NoData
       THEN /\ Finish(o, result[o])
            /\ sem' = sem + 1
            /\ bsem' = LocalRelease(o)
       ELSE Raise(o, TimeoutError, sem)
    /\ UNCHANGED <<browser, cfgVars, batchVars, nonCoreVars>>

\* The end of a sleep that gives no permit back.
BackoffEnd_NoRelease(o) ==
    /\ pc[o] = "backoff"
    /\ attempt' = [attempt EXCEPT ![o] = attempt[o] + 1]
    /\ pc' = [pc EXCEPT ![o] = "gate"]
    /\ UNCHANGED <<sem, browser, bsem, tab, result, ret, cfgVars, batchVars, nonCoreVars>>

\* asyncio.sleep(delay) is over: `async with` is left, `while attempt <= retries`
\* holds, `attempt += 1`, and the gate is asked for again.
BackoffEnd(o) ==
    /\ pc[o] = "backoff"
    /\ sem' = sem + 1
    /\ attempt' = [attempt EXCEPT ![o] = attempt[o] + 1]
    /\ pc' = [pc EXCEPT ![o] = "gate"]
    /\ UNCHANGED <<browser, bsem, tab, result, ret, cfgVars, batchVars, nonCoreVars>>

\* ------------------------------------------------------------------ batch
\* batch_get_restaurant_menu_infos: _check_browser(), the batch-local
\* semaphore, one limited_catch task per URL, and the await of gather.
BatchCall ==
    /\ bpc = "idle"
    /\ IF ~CheckBrowser(browser)
       THEN /\ bpc' = "done"
            /\ bret' = NotStarted
            /\ UNCHANGED pc
       ELSE /\ bpc' = "gathering"
            /\ pc' = [o \in Ops |-> IF o \in urls THEN "local" ELSE pc[o]]
            /\ UNCHANGED bret
    /\ UNCHANGED <<browser, sem, bsem, attempt, tab, result, ret, menu_infos,
                   cfgVars, nonCoreVars>>

\* The loop without its `if menu_:` test.
CollectMenus_KeepEmpty(us, rs) ==
    LET kept == {u \in us : rs[u] # Empty}
    IN  [u \in kept |-> ParseMenu(rs[u]).menu]

\* The loop over zip(restaurant_urls, results): the URLs whose data is not
\* empty and whose parsed menu is not empty, with that menu.
CollectMenus(us, rs) ==
    LET kept == {u \in us : rs[u] # Empty /\ ParseMenu(rs[u]).menu # <<>>}
    IN  [u \in kept |-> ParseMenu(rs[u]).menu]

\* Whether the loop raises: some non-empty data does not parse.
CollectRaises(us, rs) == \E u \in us : rs[u] # Empty /\ ~ParseMenu(rs[u]).ok

\* gather's future is done once every task has finished without an exception.
GatherComplete == \A o \in urls : pc[o] = "done" /\ ret[o] \notin Errors

\* The tasks of the batch that have raised.
Raised == {o \in urls : pc[o] = "done" /\ ret[o] \in Errors}

\* gather returned the results in the order of the URLs; the loop builds the
\* map, or raises at the first body it cannot parse.
BatchReturn ==
    /\ bpc = "gathering"
    /\ GatherComplete
    /\ bpc' = "done"
    /\ IF CollectRaises(urls, ret)
       THEN /\ bret' = MalformedPayload
            /\ UNCHANGED menu_infos
       ELSE /\ bret' = "returned"
            /\ menu_infos' = CollectMenus(urls, ret)
    /\ UNCHANGED <<browser, sem, bsem, opVars, cfgVars, nonCoreVars>>

\* gather (return_exceptions is False) raised the exception of a task into the
\* batch call, which propagates it; the other tasks are left running.
BatchRaise ==
    /\ bpc = "gathering"
    /\ \E o \in Raised : bret' = ret[o]
    /\ bpc' = "done"
    /\ UNCHANGED <<menu_infos, browser, sem, bsem, opVars, cfgVars, nonCoreVars>>

\* ------------------------------------------------------------------- Next
Next ==
    \/ Start
    \/ Stop
    \/ BatchCall
    \/ BatchReturn
    \/ BatchRaise
    \/ \E o \in Ops : Call(o)
    \/ \E o \in Ops : LocalAcquire(o)
    \/ \E o \in Ops : Acquire(o)
    \/ \E o \in Ops : OpenFail(o)
    \/ \E o \in Ops : Navigate(o)
    \/ \E o \in Ops : SetupFail(o)
    \/ \E o \in Ops : MatchAny(o)
    \/ \E o \in Ops : Timeout(o)
    \/ \E o \in Ops : CloseTab(o)
    \/ \E o \in Ops : BackoffEnd(o)

Spec == Init /\ [][Next]_vars

\* ---------------------------------------------------------------- service
\* Requests arrive in index order, each at one endpoint.
Arrives(r) ==
    /\ rpc[r] = "idle"
    /\ \A q \in Reqs : q < r => rpc[q] # "idle"

\* Request r answers a.
Respond(r, a) ==
    /\ rpc' = [rpc EXCEPT ![r] = "done"]
    /\ rresp' = [rresp EXCEPT ![r] = a]

\* `scraper = ShopeeFoodScraper()` and `await scraper.start()` up to the await
\* of zendriver.start(): the global is set before the browser is.
CreateAndStart(r) ==
    /\ created < NumScrapers
    /\ created' = created + 1
    /\ scraper' = created + 1
    /\ robj' = [robj EXCEPT ![r] = created + 1]
    /\ rpc' = [rpc EXCEPT ![r] = "starting"]
    /\ UNCHANGED <<rresp, sbrowser>>

\* scraper.get_restaurant_links_from_search(url) or
\* scraper.batch_get_restaurant_menu_infos(urls) on the global scraper g, with
\* the browsers sb, inside the endpoint's `try`: calling a method of None
\* raises AttributeError, _check_browser() raises NotStarted, and otherwise the
\* capture runs. The endpoint answers ok False with the error, or ok True.
Capture(r, g, sb) ==
    IF g = None THEN Respond(r, AttributeError)
    ELSE IF ~CheckBrowser(sb[g]) THEN Respond(r, NotStarted)
    ELSE Respond(r, "ok")

\* POST /init: init_browser.
InitArrive(r) ==
    /\ Arrives(r)
    /\ rkind' = [rkind EXCEPT ![r] = "init"]
    /\ IF scraper = None
       THEN CreateAndStart(r)
       ELSE /\ Respond(r, "Already running")
            /\ UNCHANGED <<scraper, created, sbrowser, robj>>
    /\ UNCHANGED nonServerVars

\* POST /close: close_browser. stop() of a scraper without browser does not
\* await; with one it awaits self.browser.stop().
CloseArrive(r) ==
    /\ Arrives(r)
    /\ rkind' = [rkind EXCEPT ![r] = "close"]
    /\ IF scraper = None
       THEN /\ Respond(r, "Browser not running")
            /\ UNCHANGED <<scraper, robj>>
       ELSE IF sbrowser[scraper]
       THEN /\ rpc' = [rpc EXCEPT ![r] = "stopping"]
            /\ robj' = [robj EXCEPT ![r] = scraper]
            /\ UNCHANGED <<scraper, rresp>>
       ELSE /\ scraper' = None
            /\ Respond(r, "Browser stopped")
            /\ UNCHANGED robj
    /\ UNCHANGED <<created, sbrowser, nonServerVars>>

\* GET /restaurants and POST /deals: get_restaurants, get_deals (kind k).
LazyArrive(r, k) ==
    /\ Arrives(r)
    /\ rkind' = [rkind EXCEPT ![r] = k]
    /\ IF scraper = None
       THEN CreateAndStart(r)
       ELSE /\ Capture(r, scraper, sbrowser)
            /\ UNCHANGED <<scraper, created, sbrowser, robj>>
    /\ UNCHANGED nonServerVars

\* zendriver.start() returned in start(): self.browser is set on the object
\* the request created. /init answers; the lazy endpoints go on to the capture
\* on whatever the global scraper is by now.
StartDone(r) ==
    /\ rpc[r] = "starting"
    /\ sbrowser' = [sbrowser EXCEPT ![robj[r]] = TRUE]
    /\ IF rkind[r] = "init"
       THEN Respond(r, "Browser started")
       ELSE Capture(r, scraper, sbrowser')
    /\ UNCHANGED <<scraper, created, rkind, robj, nonServerVars>>

\* self.browser.stop() returned in stop(): `self.browser = None`, and back in
\* close_browser `scraper = None`.
StopDone(r) ==
    /\ rpc[r] = "stopping"
    /\ sbrowser' = [sbrowser EXCEPT ![robj[r]] = FALSE]
    /\ scraper' = None
    /\ Respond(r, "Browser stopped")
    /\ UNCHANGED <<created, rkind, robj, nonServerVars>>

\* Browser processes that zendriver.start() launched and nothing has stopped.
LiveBrowsers == {s \in Scrapers : sbrowser[s]}

NextServer ==
    \/ \E r \in Reqs : InitArrive(r)
    \/ \E r \in Reqs : CloseArrive(r)
    \/ \E r \in Reqs : \E k \in {"restaurants", "deals"} : LazyArrive(r, k)
    \/ \E r \in Reqs : StartDone(r)
    \/ \E r \in Reqs : StopDone(r)

\* The service alone: the scraper's own operations are left out, its
\* configuration fixed.
InitServer ==
    /\ Init
    /\ max_tabs = 1
    /\ retries = 0
    /\ urls = {}

SpecServer == InitServer /\ [][NextServer]_vars

\* ---------------------------------------------------------- deal extractor
\* Largest number of dishes in the menus given to the extractor.
MaxDishes == 2

\* Restaurant URLs, dish names and prices of the menus; a dish without
\* discount_price has None there. The thresholds are the default and one that
\* a discount price of the menus equals.
Restaurants == {"a", "b"}
Names == {"Pho", "Banh Mi"}
DishPrices == {50, 120}
DiscountPrices == {None, 90, DefaultThreshold}
Thresholds == {90, DefaultThreshold}
\* The dish types (categories) of a menu, in the menu's order.
DishTypes == 1..2

\* A dish item as the extractor reads it: item.get("name"),
\* item.get("price", {}).get("value"), item.get("discount_price", {}).get("value").
Dishes == [name : Names, price : DishPrices, discount_price : DiscountPrices]

\* The dishes of the menus, each with its restaurant and dish type, in the
\* order in which they stand in their lists.
Entries == [url : Restaurants, type : DishTypes, item : Dishes]
Listings == UNION {[1..n -> Entries] : n \in 0..MaxDishes}

\* dish_type.get("dishes", []) of dish type ty of restaurant u.
DishesOf(es, u, ty) ==
    LET own == SelectSeq(es, LAMBDA e : e.url = u /\ e.type = ty)
    IN  [i \in 1..Len(own) |-> own[i].item]

\* The Menu Payload Map holding the dishes es: every restaurant's menu is the
\* list of its dish types.
MenuInfos(es) == [u \in Restaurants |-> [ty \in DishTypes |-> DishesOf(es, u, ty)]]

\* The test with the threshold included (`discount_price > price_threshold`).
Qualifies_Inclusive(discount_price, threshold) ==
    ~(discount_price = None \/ discount_price > threshold)

\* `if discount_price is None or discount_price >= price_threshold: continue`:
\* the dishes that are not skipped.
Qualifies(discount_price, threshold) ==
    ~(discount_price = None \/ discount_price >= threshold)

\* The record appended to good_deals; its three fields are the key put in seen.
Deal(item) ==
    [name |-> item.name, original_price |-> item.price,
     discount_price |-> item.discount_price]

\* `for item in dish_type.get("dishes", [])`, from the state acc of seen and
\* good_deals.
RECURSIVE ScanDishes(_, _, _)
ScanDishes(dishes, acc, threshold) ==
    IF dishes = << >> THEN acc
    ELSE LET item == Head(dishes)
             key == Deal(item)
             next == IF /\ Qualifies(item.discount_price, threshold)
                        /\ key \notin acc.seen
                     THEN [seen |-> acc.seen \cup {key},
                           good_deals |-> Append(acc.good_deals, Deal(item))]
                     ELSE acc
         IN  ScanDishes(Tail(dishes), next, threshold)

\* `for dish_type in menu`.
RECURSIVE ScanMenu(_, _, _)
ScanMenu(menu, acc, threshold) ==
    IF menu = << >> THEN acc
    ELSE ScanMenu(Tail(menu), ScanDishes(Head(menu), acc, threshold), threshold)

\* good_deals of one restaurant: seen = set(), good_deals = [], and the loops.
GoodDeals(menu, threshold) ==
    ScanMenu(menu, [seen |-> {}, good_deals |-> << >>], threshold).good_deals

\* batch_parse_special_discounts_from_menu_infos: `if good_deals:` keeps the
\* restaurants with a deal.
BatchParse(ms, threshold) ==
    LET kept == {u \in DOMAIN ms : GoodDeals(ms[u], threshold) # << >>}
    IN  [u \in kept |-> GoodDeals(ms[u], threshold)]

\* The extractor is called on the menus it was given.
Extract ==
    /\ dpc = "idle"
    /\ special_deals' = BatchParse(menus, price_threshold)
    /\ dpc' = "done"
    /\ UNCHANGED <<menus, price_threshold, nonDealVars>>

\* The scraper and the service at rest: no caller, no request.
CoreIdle == CoreInit /\ max_tabs = 1 /\ retries = 0 /\ urls = {}

\* A Menu Payload Map of at most MaxDishes dishes and a threshold.
InitDeals ==
    /\ CoreIdle
    /\ ServerInit
    /\ \E es \in Listings : menus = MenuInfos(es)
    /\ price_threshold \in Thresholds
    /\ dpc = "idle"
    /\ special_deals = << >>
    /\ CaptureIdle
    /\ GatherIdle

NextDeals == Extract

SpecDeals == InitDeals /\ [][NextDeals]_vars

\* ------------------------------------------------ one call, event by event
\* One call of catch_request on a started scraper, traced through the
\* responses its page produces: every response event starts an invocation of
\* receive_handler, which runs as a task of its own beside the call.

\* The attempt's tab is open and receive_handler is registered on it: from
\* tab.add_handler to the return of tab.close().
Listening == cpc \in {"navigating", "waiting", "closing"}

\* The delay without the shift of the exponent (`backoff * 2 ** attempt`).
Delay_NoShift(b, a) == b * 2^a

\* `delay = backoff * (2 ** (attempt - 1))`.
Delay(b, a) == b * 2^(a - 1)

\* A handler that swallows no error.
Benign_Never(code) == FALSE

\* The ProtocolException the handler swallows: `e.args[0].get("code") == -32000`.
Benign(code) == code = BenignCode

\* A body the browser sends base64-encoded, and what the handler makes of the
\* body it fetched: base64.b64decode(body).decode(...) `if isbase64`.
B64(text) == <<"base64", text>>
Decoded(body, isbase64) == IF isbase64 THEN body[2] ELSE body

\* Exception e leaves _catch_request_core, free being the gate's free permits
\* while the call holds its own: as Raise, with the sleep's delay recorded.
Thrown(e, free) ==
    IF Caught(e) /\ RetryAllowed(cattempt, retries)
    THEN /\ sleeps' = Append(sleeps, Delay(backoff, cattempt))
         /\ cpc' = "sleeping"
         /\ sem' = free
         /\ UNCHANGED cret
    ELSE /\ cpc' = "done"
         /\ cret' = IF Caught(e) THEN Empty ELSE e
         /\ sem' = free + 1
         /\ UNCHANGED sleeps

\* catch_request is called: _check_browser(), attempt = 0, `attempt += 1`.
TraceCall ==
    /\ cpc = "idle"
    /\ IF ~CheckBrowser(browser)
       THEN /\ cpc' = "done"
            /\ cret' = NotStarted
            /\ UNCHANGED cattempt
       ELSE /\ cpc' = "gate"
            /\ cattempt' = 1
            /\ UNCHANGED cret
    /\ UNCHANGED <<sem, backoff, sleeps, attemptVars, nonCaptureVars>>

\* `async with self.semaphore` entered, _check_browser(), and browser.get
\* returned the attempt's tab: done and result are new, no response seen.
Enter ==
    /\ cpc = "gate"
    /\ sem > 0
    /\ IF ~CheckBrowser(browser)
       THEN /\ Thrown(NotStarted, sem - 1)
            /\ UNCHANGED attemptVars
       ELSE /\ cpc' = "enable"
            /\ sem' = sem - 1
            /\ done' = FALSE
            /\ cresult' = NoResult
            /\ timed_out' = FALSE
            /\ hpc' = [e \in Events |-> "none"]
            /\ hcode' = [e \in Events |-> 0]
            /\ UNCHANGED <<cret, sleeps>>
    /\ UNCHANGED <<cattempt, backoff, nonCaptureVars>>

\* As Enter, but browser.get raised or returned None.
EnterFail ==
    /\ cpc = "gate"
    /\ sem > 0
    /\ CheckBrowser(browser)
    /\ Thrown(DriverError, sem - 1)
    /\ UNCHANGED <<cattempt, backoff, attemptVars, nonCaptureVars>>

\* tab.send(network.enable()) answered; the handler is added and the 0.5 s
\* sleep awaited.
Enabled ==
    /\ cpc = "enable"
    /\ cpc' = "navigating"
    /\ UNCHANGED <<sem, cattempt, backoff, sleeps, cret, attemptVars, nonCaptureVars>>

\* The sleep is over and tab.get(page_url) returned: wait_for(done.wait(),
\* timeout) is awaited.
Navigated ==
    /\ cpc = "navigating"
    /\ cpc' = "waiting"
    /\ UNCHANGED <<sem, cattempt, backoff, sleeps, cret, attemptVars, nonCaptureVars>>

\* tab.send(network.enable()) or tab.get(page_url) raised a driver error.
SetupRaise ==
    /\ cpc \in {"enable", "navigating"}
    /\ Thrown(DriverError, sem)
    /\ UNCHANGED <<cattempt, backoff, attemptVars, nonCaptureVars>>

\* A ResponseReceived event on the tab: receive_handler(event) starts. A
\* response the filter rejects is ignored; for one it lets through,
\* get_response_body is sent and awaited. Events are numbered as they arrive.
Event(e) ==
    /\ Listening
    /\ hpc[e] = "none"
    /\ \A f \in Events : f < e => hpc[f] # "none"
    /\ \E matches \in BOOLEAN :
           hpc' = [hpc EXCEPT ![e] = IF matches THEN "fetching" ELSE "ignored"]
    /\ UNCHANGED <<sem, cpc, cattempt, backoff, sleeps, cret, done, cresult,
                   timed_out, hcode, nonCaptureVars>>

\* get_response_body answered receive_handler(event e): the body is decoded,
\* result["url"] and result["data"] are assigned and done is set.
FetchReturn(e) ==
    /\ Listening
    /\ hpc[e] = "fetching"
    /\ \E text \in Texts, isbase64 \in BOOLEAN :
           LET body == IF isbase64 THEN B64(text) ELSE text
           IN  cresult' = [url |-> e, data |-> Decoded(body, isbase64)]
    /\ done' = TRUE
    /\ hpc' = [hpc EXCEPT ![e] = "recorded"]
    /\ UNCHANGED <<sem, cpc, cattempt, backoff, sleeps, cret, timed_out, hcode,
                   nonCaptureVars>>

\* get_response_body raised ProtocolException in receive_handler(event e):
\* with the benign code the handler returns, with another `raise e` ends the
\* handler's task with the exception. The call awaits done.wait() and nothing
\* of the handler's task.
FetchFail(e) ==
    /\ Listening
    /\ hpc[e] = "fetching"
    /\ \E code \in {BenignCode, OtherCode} :
           /\ hcode' = [hcode EXCEPT ![e] = code]
           /\ hpc' = [hpc EXCEPT ![e] = IF Benign(code) THEN "swallowed" ELSE "raised"]
    /\ UNCHANGED <<sem, cpc, cattempt, backoff, sleeps, cret, done, cresult,
                   timed_out, nonCaptureVars>>

\* done is set: wait_for returns and the finally block awaits tab.close().
Woken ==
    /\ cpc = "waiting"
    /\ done
    /\ cpc' = "closing"
    /\ UNCHANGED <<sem, cattempt, backoff, sleeps, cret, attemptVars, nonCaptureVars>>

\* The timeout passed with done not set: wait_for raises TimeoutError into the
\* finally block, which awaits tab.close().
TimedOut ==
    /\ cpc = "waiting"
    /\ ~done
    /\ cpc' = "closing"
    /\ timed_out' = TRUE
    /\ UNCHANGED <<sem, cattempt, backoff, sleeps, cret, done, cresult, hpc, hcode,
                   nonCaptureVars>>

\* tab.close() returned: the TimeoutError goes on to catch_request, or
\* result.get("data", "") is returned.
Closed ==
    /\ cpc = "closing"
    /\ IF timed_out
       THEN Thrown(TimeoutError, sem)
       ELSE /\ cpc' = "done"
            /\ cret' = IF cresult.data = NoData THEN Empty ELSE cresult.data
            /\ sem' = sem + 1
            /\ UNCHANGED sleeps
    /\ UNCHANGED <<cattempt, backoff, attemptVars, nonCaptureVars>>

\* asyncio.sleep(delay) is over: `async with` is left, `attempt += 1`.
Slept ==
    /\ cpc = "sleeping"
    /\ sem' = sem + 1
    /\ cattempt' = cattempt + 1
    /\ cpc' = "gate"
    /\ UNCHANGED <<backoff, sleeps, cret, attemptVars, nonCaptureVars>>

\* A started scraper with a gate of one permit, and one call of catch_request
\* with a retry budget and a backoff base.
InitCapture ==
    /\ browser = TRUE
    /\ max_tabs = 1
    /\ retries \in 0..(MaxRetries + 1)
    /\ sem = max_tabs
    /\ pc = [o \in Ops |-> "idle"]
    /\ attempt = [o \in Ops |-> 0]
    /\ tab = [o \in Ops |-> "none"]
    /\ result = [o \in Ops |-> NoData]
    /\ ret = [o \in Ops |-> Pending]
    /\ urls = {}
    /\ max_concurrent = 1
    /\ bsem = max_concurrent
    /\ bpc = "idle"
    /\ bret = Pending
    /\ menu_infos = << >>
    /\ ServerInit
    /\ DealsIdle
    /\ \E b \in 1..MaxBackoff : CaptureStart(b)
    /\ GatherIdle

NextCapture ==
    \/ TraceCall
    \/ Enter
    \/ EnterFail
    \/ Enabled
    \/ Navigated
    \/ SetupRaise
    \/ \E e \in Events : Event(e)
    \/ \E e \in Events : FetchReturn(e)
    \/ \E e \in Events : FetchFail(e)
    \/ Woken
    \/ TimedOut
    \/ Closed
    \/ Slept

SpecCapture == InitCapture /\ [][NextCapture]_vars

\* ------------------------------------------- one batch, result by result
\* One call of batch_get_restaurant_menu_infos on a started scraper, traced
\* through the results of its tasks: each task is limited_catch(url) for the
\* URL at its place in the list, and returns what catch_request captured in
\* the tab it navigated to that URL.

\* Longest URL list of the traced batch. A list may name a URL twice.
MaxUrls == 3
UrlLists == UNION {[1..n -> Restaurants] : n \in 0..MaxUrls}

\* What a task can end with: "" after its timeouts, a body with a menu, a
\* well-formed body without menu, a body json.loads rejects, or an exception.
Outcomes == {"empty", "menu", "nomenu", "bad", "error"}

\* What the task of the i-th URL ended with: the outcome, and for a body the
\* page it is the response of and the task that captured it.
TaskResult(kind, url, i) == [kind |-> kind, page |-> url, task |-> i]
\* A task that has not finished.
Running == TaskResult("running", "", 0)

\* The results in the order in which the tasks finished.
Results_AsCompleted(g, fin) == [i \in DOMAIN g |-> g[fin[i]]]

\* `results = await asyncio.gather(*tasks)`: the results in the order of the
\* tasks, whatever the order fin in which they finished.
Results(g, fin) == g

\* json.loads(restaurant_data).get("reply", {}).get("menu_infos", {}): the menu
\* structure of the body, empty when it has none.
MenuOf(data) == IF data.kind = "menu" THEN <<data>> ELSE << >>

\* `for url, restaurant_data in zip(restaurant_urls, results)`, from the
\* dict acc: empty data is skipped, a non-empty menu is assigned to its URL.
RECURSIVE ZipLoop(_, _, _)
ZipLoop(us, results, acc) ==
    IF us = << >> \/ results = << >> THEN acc
    ELSE LET url == Head(us)
             data == Head(results)
             next == IF data.kind # "empty" /\ MenuOf(data) # << >>
                     THEN [u \in DOMAIN acc \cup {url} |->
                              IF u = url THEN MenuOf(data) ELSE acc[u]]
                     ELSE acc
         IN  ZipLoop(Tail(us), Tail(results), next)

\* The batch is called: _check_browser(), one task per URL, gather awaited.
GatherCall ==
    /\ gpc = "idle"
    /\ CheckBrowser(browser)
    /\ gpc' = "gathering"
    /\ gathered' = [i \in DOMAIN restaurant_urls |-> Running]
    /\ UNCHANGED <<restaurant_urls, finished, gout, nonGatherVars>>

\* The task of the i-th URL ends.
TaskEnds(i) ==
    /\ gpc = "gathering"
    /\ i \in DOMAIN gathered
    /\ gathered[i] = Running
    /\ \E kind \in Outcomes :
           gathered' = [gathered EXCEPT ![i] = TaskResult(kind, restaurant_urls[i], i)]
    /\ finished' = Append(finished, i)
    /\ UNCHANGED <<restaurant_urls, gpc, gout, nonGatherVars>>

\* Every task has returned: gather returns and the loop builds the map, or
\* raises at a body it cannot parse.
GatherReturns ==
    /\ gpc = "gathering"
    /\ \A i \in DOMAIN gathered : gathered[i].kind \notin {"running", "error"}
    /\ LET results == Results(gathered, finished)
       IN  IF \E i \in DOMAIN results : results[i].kind = "bad"
           THEN gpc' = "raised" /\ UNCHANGED gout
           ELSE /\ gpc' = "returned"
                /\ gout' = ZipLoop(restaurant_urls, results, << >>)
    /\ UNCHANGED <<restaurant_urls, gathered, finished, nonGatherVars>>

\* A task has raised: gather raises its exception into the batch call.
GatherRaises ==
    /\ gpc = "gathering"
    /\ \E i \in DOMAIN gathered : gathered[i].kind = "error"
    /\ gpc' = "raised"
    /\ UNCHANGED <<restaurant_urls, gathered, finished, gout, nonGatherVars>>

\* A started scraper and one batch call over a list of at most MaxUrls URLs.
InitBatch ==
    /\ browser = TRUE
    /\ max_tabs = 1
    /\ retries = 0
    /\ sem = max_tabs
    /\ pc = [o \in Ops |-> "idle"]
    /\ attempt = [o \in Ops |-> 0]
    /\ tab = [o \in Ops |-> "none"]
    /\ result = [o \in Ops |-> NoData]
    /\ ret = [o \in Ops |-> Pending]
    /\ urls = {}
    /\ max_concurrent = 1
    /\ bsem = max_concurrent
    /\ bpc = "idle"
    /\ bret = Pending
    /\ menu_infos = << >>
    /\ ServerInit
    /\ DealsIdle
    /\ CaptureIdle
    /\ \E us \in UrlLists : GatherStart(us)

NextBatch ==
    \/ GatherCall
    \/ \E i \in 1..MaxUrls : TaskEnds(i)
    \/ GatherReturns
    \/ GatherRaises

SpecBatch == InitBatch /\ [][NextBatch]_vars

\* ------------------------------------------------------- fair scheduling
\* A started scraper that nobody stops, a batch over at least one URL and the
\* other callers of catch_request (the branches of another batch among them:
\* its local gate is its own, the scraper's gate is shared).
InitLive ==
    /\ browser = TRUE
    /\ max_tabs \in 1..MaxTabs
    /\ retries \in 0..MaxRetries
    /\ sem = max_tabs
    /\ pc = [o \in Ops |-> "idle"]
    /\ attempt = [o \in Ops |-> 0]
    /\ tab = [o \in Ops |-> "none"]
    /\ result = [o \in Ops |-> NoData]
    /\ ret = [o \in Ops |-> Pending]
    /\ \E n \in 1..NumOps : urls = 1..n
    /\ max_concurrent \in 1..MaxConcurrent(urls)
    /\ bsem = max_concurrent
    /\ bpc = "idle"
    /\ bret = Pending
    /\ menu_infos = << >>
    /\ ServerInit
    /\ DealsIdle
    /\ CaptureIdle
    /\ GatherIdle

\* The steps the event loop takes by itself once their coroutine can run: a
\* semaphore with a free permit wakes a waiter, an awaited driver call is
\* answered, a timeout or a sleep expires, gather's future is done.
Progress ==
    \/ BatchReturn
    \/ BatchRaise
    \/ \E o \in Ops : LocalAcquire(o)
    \/ \E o \in Ops : Acquire(o)
    \/ \E o \in Ops : OpenFail(o)
    \/ \E o \in Ops : Navigate(o)
    \/ \E o \in Ops : SetupFail(o)
    \/ \E o \in Ops : MatchAny(o)
    \/ \E o \in Ops : Timeout(o)
    \/ \E o \in Ops : CloseTab(o)
    \/ \E o \in Ops : BackoffEnd(o)

\* The callers call when they like; the rest is Progress.
NextLive ==
    \/ BatchCall
    \/ \E o \in Ops : Call(o)
    \/ Progress

\* The event loop does not stop while a coroutine can run.
SpecLive == InitLive /\ [][NextLive]_vars /\ WF_vars(Progress)

\* ================================================================ claims

\* C1: every tab a capture attempt opened is closed before the attempt returns
\* or raises, on every exit path: outside an attempt, no operation has a tab of
\* its own still open.
C1_TabClosedOnEveryExit == \A o \in Ops : o \notin InAttempt => tab[o] = "none"

\* C2: the number of tabs open at the same time never exceeds
\* max_concurrent_tabs.
C2_OpenTabsBounded == Cardinality(OpenTabs) <= max_tabs

\* One step of catch_request as C3 states it.
C3_Step ==
    \A o \in Ops :
        /\ attempt'[o] <= retries + 1
        /\ (pc[o] # "done" /\ pc'[o] = "done" /\ ret'[o] = Empty)
               => (pc[o] = "closing" /\ result[o] = NoData /\ attempt[o] = retries + 1)
        /\ (pc[o] = "closing" /\ result[o] = NoData /\ pc'[o] # "closing")
               => IF attempt[o] = retries + 1
                  THEN pc'[o] = "done" /\ ret'[o] = Empty
                  ELSE pc'[o] = "backoff" /\ attempt'[o] = attempt[o]
        /\ (pc[o] = "closing" /\ result[o] # NoData /\ pc'[o] # "closing")
               => (pc'[o] = "done" /\ ret'[o] = result[o])

\* C3: with retry budget R, catch_request makes at most R+1 attempts; an attempt
\* that times out is followed by another one until R+1 have been made, and the
\* call then returns the empty result and does not raise; an attempt that
\* captured a body returns that body at once, with no further attempt.
C3_RetryBudget == (\A o \in Ops : attempt[o] <= retries + 1) /\ [][C3_Step]_vars

\* C3's case: with a budget of at least one retry, an operation has returned
\* the empty result.
C3_Witness == \E o \in Ops : pc[o] = "done" /\ ret[o] = Empty /\ retries >= 1

\* One step of catch_request as C4 states it: an attempt that ends before its
\* wait began did not time out.
C4_Step ==
    \A o \in Ops :
        (pc[o] \in {"gate", "setup"} /\ pc'[o] \notin {pc[o], "setup", "waiting"})
            => /\ pc'[o] = "done"
               /\ ret'[o] \in Errors \ {TimeoutError}
               /\ attempt'[o] = 0

\* C4: an attempt that fails with an error other than a timeout ends the call
\* with that error at once: no backoff sleep, no further attempt, whatever the
\* retry budget.
C4_ErrorsPropagate == [][C4_Step]_vars

\* C4's case: an operation with retries left has ended with a driver error,
\* while another operation is in its backoff sleep.
C4_Witness ==
    \E o \in Ops : /\ pc[o] = "done"
                   /\ ret[o] = DriverError
                   /\ retries >= 1
                   /\ \E p \in Ops : pc[p] = "backoff"

\* One step while the browser is absent, as C5 states it.
C5_Step ==
    ~browser =>
        /\ \A o \in Ops :
               /\ (pc[o] \in {"idle", "local", "gate"} /\ pc'[o] # pc[o])
                      => (pc'[o] = "done" /\ ret'[o] = NotStarted)
               /\ tab'[o] = "open" => tab[o] = "open"
        /\ (bpc = "idle" /\ bpc' # "idle")
               => (bpc' = "done" /\ bret' = NotStarted /\ pc' = pc)

\* C5: while the browser is absent, a call of catch_request (or of
\* get_restaurant_links_from_search, which wraps it) and a call of
\* batch_get_restaurant_menu_infos end with NotStarted, open no tab and are not
\* retried; so does the next attempt of an operation that was retrying when the
\* browser was stopped.
C5_NotStarted == [][C5_Step]_vars

\* C5's case: the browser was stopped while an operation was between two
\* attempts (it is back at the gate, which is free), and another operation has
\* already ended with NotStarted.
C5_Witness ==
    \E o, p \in Ops :
        /\ ~browser
        /\ pc[o] = "gate" /\ attempt[o] >= 2 /\ sem > 0
        /\ pc[p] = "done" /\ ret[p] = NotStarted

\* C6: when some URLs of a batch time out on every attempt and the others
\* capture well-formed bodies, the batch returns, and the keys of its map are
\* exactly the URLs that captured a non-empty menu.
C6_BatchPartialResults ==
    /\ (bpc = "done" /\ bret = "returned")
           => DOMAIN menu_infos = {u \in urls : ret[u] = "menu"}
    /\ (/\ bpc = "done"
        /\ \E u \in urls : ret[u] = Empty
        /\ \A u \in urls : pc[u] = "done" /\ ret[u] \in {Empty, "menu", "nomenu"})
           => bret = "returned"

\* C6's case: a batch has returned with one URL timed out and another URL's
\* menu in the map.
C6_Witness ==
    /\ bpc = "done" /\ bret = "returned"
    /\ \E u, v \in urls : ret[u] = Empty /\ ret[v] = "menu" /\ v \in DOMAIN menu_infos

\* C7: a body that is not the expected JSON for one URL does not abort the
\* batch: once every branch has returned, the batch returns a map that holds
\* the menu of every URL that captured one.
C7_MalformedKeepsSiblings ==
    (bpc = "done" /\ GatherComplete)
        => \A u \in urls : ret[u] = "menu"
               => (bret = "returned" /\ u \in DOMAIN menu_infos)

\* C8: when the batch call has returned or raised, every branch of it has
\* completed: none still holds a permit of the scraper's gate, as a branch
\* does that is inside an attempt with its tab open or sleeping in backoff.
C8_BatchJoinsAllBranches == bpc = "done" => Holders \cap urls = {}

\* C9: at most one browser process is alive at a time, and a browser that is
\* alive belongs to the scraper the service's global names.
C9_SingleOwnedSession ==
    /\ Cardinality(LiveBrowsers) <= 1
    /\ \A s \in LiveBrowsers : scraper = s

\* One answer of the service as C10 states it.
C10_Step ==
    \A r \in Reqs :
        (rresp[r] = Pending /\ rresp'[r] # Pending)
            => /\ rkind'[r] \in {"restaurants", "deals"} => rresp'[r] = "ok"
               /\ rresp'[r] = "Already running"
                      => (scraper # None /\ sbrowser[scraper])

\* C10: a request that is past its lazy start finds the session running: no
\* /restaurants or /deals request fails for want of a started browser, and
\* /init answers "Already running" only when the browser is started.
C10_LazyStartDone == [][C10_Step]_vars

\* The dishes of a menu in reading order: its dish types one after the other.
RECURSIVE C11_Flat(_)
C11_Flat(menu) ==
    IF menu = << >> THEN << >> ELSE Head(menu) \o C11_Flat(Tail(menu))

\* The keys (name, original price, discount price) of the dishes of flat whose
\* discount price is present and strictly less than the threshold.
C11_Wanted(flat, threshold) ==
    {Deal(flat[i]) : i \in {k \in DOMAIN flat :
                                /\ flat[k].discount_price # None
                                /\ flat[k].discount_price < threshold}}

\* Where the key d is first seen in flat.
C11_First(flat, d) ==
    CHOOSE i \in DOMAIN flat :
        Deal(flat[i]) = d /\ \A j \in 1..(i - 1) : Deal(flat[j]) # d

\* C11: the extractor returns, for each restaurant, exactly the dishes whose
\* discount price is present and strictly less than the threshold, each key
\* (name, original price, discount price) once and in first-seen order; a
\* restaurant with no such dish is not a key of the output.
C11_DealsExact ==
    dpc = "done" =>
        /\ DOMAIN special_deals \subseteq DOMAIN menus
        /\ \A u \in DOMAIN menus :
               LET flat == C11_Flat(menus[u])
                   wanted == C11_Wanted(flat, price_threshold)
               IN  IF wanted = {} THEN u \notin DOMAIN special_deals
                   ELSE /\ u \in DOMAIN special_deals
                        /\ LET g == special_deals[u]
                           IN  /\ {g[i] : i \in DOMAIN g} = wanted
                               /\ \A i, j \in DOMAIN g :
                                      i < j => /\ g[i] # g[j]
                                               /\ C11_First(flat, g[i])
                                                      < C11_First(flat, g[j])

\* C11's case: a restaurant with two dishes, one of them at a discount price
\* equal to the threshold, has one deal; the other restaurant has no deal and
\* is left out.
C11_Witness ==
    /\ dpc = "done"
    /\ \E u, v \in DOMAIN menus :
           /\ u \in DOMAIN special_deals
           /\ Len(special_deals[u]) = 1
           /\ Len(C11_Flat(menus[u])) = 2
           /\ \E i \in 1..2 :
                  C11_Flat(menus[u])[i].discount_price = price_threshold
           /\ v \notin DOMAIN special_deals

\* C12: with backoff base b > 0, the sleep taken after the k-th timed-out
\* attempt (k = 1..R) is b * 2^(k-1), so the delays strictly increase; every
\* timed-out attempt but the last is followed by one sleep, and none is taken
\* after the last (R+1-th) attempt.
C12_BackoffDelays ==
    /\ \A k \in DOMAIN sleeps : sleeps[k] = backoff * 2^(k - 1)
    /\ \A k \in DOMAIN sleeps : k > 1 => sleeps[k - 1] < sleeps[k]
    /\ Len(sleeps) <= retries
    /\ Len(sleeps) = IF cpc = "sleeping" THEN cattempt
                     ELSE IF cattempt = 0 THEN 0 ELSE cattempt - 1
    /\ (cpc = "done" /\ cret = Empty)
           => (cattempt = retries + 1 /\ Len(sleeps) = retries)

\* C12's case: a call with a base of more than one second has slept twice and
\* returned the empty result after its last attempt timed out.
C12_Witness ==
    /\ cpc = "done"
    /\ cret = Empty
    /\ backoff > 1
    /\ Len(sleeps) >= 2

\* C13: whatever the order in which the tasks of a batch finish, every entry
\* of the returned map gives a URL of the list the menu of a body that the task
\* started for that URL captured, on the page of that URL.
C13_Association ==
    gpc = "returned" =>
        \A u \in DOMAIN gout :
            /\ gout[u][1].page = u
            /\ \E i \in DOMAIN restaurant_urls :
                   /\ restaurant_urls[i] = u
                   /\ gout[u] = MenuOf(gathered[i])

\* C13's case: the batch has returned the menus of two different URLs whose
\* tasks finished in the reverse of the order of the list.
C13_Witness ==
    /\ gpc = "returned"
    /\ \E i, j \in DOMAIN restaurant_urls :
           /\ i < j
           /\ restaurant_urls[i] # restaurant_urls[j]
           /\ {restaurant_urls[i], restaurant_urls[j]} \subseteq DOMAIN gout
           /\ \E m, n \in DOMAIN finished :
                  m < n /\ finished[m] = j /\ finished[n] = i

\* C14: every capture attempt holds a permit of the scraper's gate from before
\* it opens its tab until after the tab is closed: an operation whose tab is
\* open holds a permit.
C14_TabOnlyUnderPermit == \A o \in Ops : tab[o] = "open" => o \in Holders

\* One step of an attempt as C15 states it: with a result recorded, a step
\* within the attempt leaves the recorded url and data as they are.
C15_Step ==
    (Listening /\ done /\ ~timed_out /\ cpc' \in {"navigating", "waiting", "closing"})
        => cresult' = cresult

\* C15: within one attempt the first matching response whose body is fetched
\* publishes the result, and no later handler invocation, one whose body fetch
\* was already in flight included, changes the url or data the attempt returns.
C15_FirstResultKept == [][C15_Step]_vars

\* One step of the call as C16 states it: a benign failure changes nothing of
\* the attempt, and an attempt that met one ends its wait only by a recorded
\* response or by the timeout, and the call not with an error.
C16_Step ==
    /\ \A e \in Events :
           (hpc[e] = "fetching" /\ hcode'[e] = BenignCode)
               => /\ hpc'[e] = "swallowed"
                  /\ UNCHANGED <<done, cresult, timed_out, cpc, cret, sleeps, cattempt>>
    /\ (\E e \in Events : hpc[e] = "swallowed")
           => /\ (cpc = "waiting" /\ cpc' # "waiting")
                     => /\ cpc' = "closing"
                        /\ \/ timed_out'
                           \/ /\ done
                              /\ cresult.url \in Events
                              /\ hpc[cresult.url] = "recorded"
              /\ (cpc \in {"waiting", "closing"} /\ cpc' = "done")
                     => cret' \in Texts \cup {Empty}

\* C16: a body fetch that fails with the benign race error (code -32000) is
\* swallowed: no result is recorded, completion is not signalled and no error
\* reaches the caller; the attempt keeps waiting and ends with a later matching
\* response or with a timeout.
C16_BenignSwallowed ==
    /\ [](\A e \in Events : hcode[e] = BenignCode => hpc[e] = "swallowed")
    /\ [][C16_Step]_vars

\* C16's case: the call has returned the body of a response that came after
\* one whose body fetch failed with the benign error.
C16_Witness ==
    /\ cpc = "done"
    /\ cret \in Texts
    /\ \E e, f \in Events :
           e < f /\ hpc[e] = "swallowed" /\ hpc[f] = "recorded" /\ cresult.url = f

\* One step of the call as C17 states it: while a handler of the attempt has
\* raised a protocol error that is not the benign one, the call leaves its wait
\* only to end with that error.
C17_Step ==
    (cpc = "waiting" /\ \E e \in Events : hpc[e] = "raised" /\ hcode[e] # BenignCode)
        => \/ cpc' = "waiting"
           \/ cpc' = "done" /\ cret' = DriverError

\* C17: a body fetch that fails with a protocol error other than the benign
\* race is propagated to the caller of the capture operation, which is not
\* retried: catch_request ends with that error instead of waiting out the
\* timeout and starting another attempt.
C17_ProtocolErrorPropagates == [][C17_Step]_vars

\* C18: under fair scheduling every batch call ends, whatever the batch-local
\* and the global bound, also with more URLs than either bound and with other
\* callers at the scraper's gate: in the end no batch is still gathering and no
\* operation is still blocked on the batch-local gate or on the scraper's gate.
C18_BatchTerminates ==
    <>[](bpc # "gathering" /\ \A o \in Ops : pc[o] \notin {"local", "gate"})

\* C18's case: a batch over more URLs than either bound has returned, one of
\* its branches after timing out on every attempt of a budget with a retry.
C18_Witness ==
    /\ bpc = "done"
    /\ bret = "returned"
    /\ Cardinality(urls) > max_tabs
    /\ Cardinality(urls) > max_concurrent
    /\ retries >= 1
    /\ \E u, v \in urls : ret[u] = Empty /\ ret[v] = "menu"

\* C19: the permits of the scraper's gate are conserved: the free permits
\* and the operations holding one add up to max_concurrent_tabs, and when no
\* operation is under way, however the others ended, every permit is free.
C19_PermitsConserved ==
    /\ sem + Cardinality(Holders) = max_tabs
    /\ (\A o \in Ops : pc[o] \in {"idle", "done"}) => sem = max_tabs

\* C19's case: every operation has ended, one with a driver error and one with
\* the empty result of an exhausted budget with a retry, and the permits are
\* free.
C19_Witness ==
    /\ \A o \in Ops : pc[o] = "done"
    /\ \E o, p \in Ops : ret[o] = DriverError /\ ret[p] = Empty
    /\ retries >= 1
    /\ max_tabs < NumOps
    /\ sem = max_tabs

\* One step of catch_request as C20 states it: entering the backoff sleep
\* frees no permit, and leaving it frees one and leads back to the gate.
C20_Step ==
    \A o \in Ops :
        /\ (pc[o] # "backoff" /\ pc'[o] = "backoff") => sem' = sem
        /\ (pc[o] = "backoff" /\ pc'[o] # "backoff")
               => (sem' = sem + 1 /\ pc'[o] = "gate")

\* C20: an operation whose attempt timed out keeps its permit for the whole
\* backoff sleep and gives it back only when the sleep ends, before it asks
\* for the gate again; so the operations inside an attempt or asleep in
\* backoff are never more than max_concurrent_tabs, and the free permits never
\* more than those the sleepers leave.
C20_PermitHeldInBackoff ==
    /\ [](/\ Cardinality(Holders) <= max_tabs
          /\ sem <= max_tabs - Cardinality({o \in Ops : pc[o] = "backoff"}))
    /\ [][C20_Step]_vars

\* C20's case: an operation waits at the gate with no permit free and no tab
\* open: every permit is held by an operation asleep in backoff.
C20_Witness ==
    \E o \in Ops :
        /\ pc[o] = "gate"
        /\ sem = 0
        /\ OpenTabs = {}
        /\ Cardinality({p \in Ops : pc[p] = "backoff"}) = max_tabs

====
